---- MODULE Spec2Model ----
(***************************************************************************)
(* Multi-bar terminal progress renderer of async_progressbar.py:           *)
(* BaseProgressBar / TerminalProgressBar, the class-level registry         *)
(* (terminal_bar_count, lines_reserved), the wall clock read by update,    *)
(* the cooperative tasks that call the bars, and the terminal that         *)
(* consumes the escape sequences.                                          *)
(*                                                                         *)
(* Time is counted in whole ticks.  A rate is kept as the pair             *)
(* <<progress_delta, elapsed>> of the division the code performs.          *)
(***************************************************************************)
EXTENDS Integers, Sequences, FiniteSets, TLC

\* Python's None: _start_time before the first update, num_bars when omitted.
None == -1

\* minimum_interval: float = 0.1, the default of the constructor.  One tick
\* of the clock stands for it.
DefaultInterval == 1

\* ------------------------------------------------------------------ bounds
\* The bars constructed, the last clock reading, and the progress up to
\* which update is called.
MaxBars == 2
MaxClock == 2
MaxProgress == 3
\* How far below zero update is called to bring the progress.
Undershoot == 1
\* number_of_requests of the demo, scaled down from 10000.
number_of_requests == 3
\* How many rows above its starting row the cursor has been left, at the
\* most, when the stream is made to fail again.
MaxDrift == 2

\* Inputs of the constructor, of update and of reserve_lines; the tasks; the
\* rows below the cursor when the program starts; the first clock reading.
Totals == {2}
Intervals == {0, DefaultInterval}
Deltas == {1, 2}
NumBars == {None, 0, 1}
Tasks == {1, 2}
Rooms == {0, 1}
MinClock == 1

\* Arguments the constructor and update accept without complaint, and the
\* rows below the cursor of a terminal that has not filled its screen.
\* What use_ipywidgets_progressbar() returns, the leave argument, and the
\* AsyncProgressBar objects constructed.
Probes == {FALSE, TRUE}
Leaves == {FALSE, TRUE}
Wrappers == {1, 2}

AnyTotals == {-1, 0, 2}
AnyDeltas == {-1, 1, 2}
FreeRows == 3

VARIABLES
    terminal_bar_count,   \* TerminalProgressBar.terminal_bar_count
    lines_reserved,       \* TerminalProgressBar.lines_reserved
    bars,                 \* the bars constructed so far, in construction order
    clock,                \* what time.time() returns now
    term,                 \* the terminal: cursor, saved cursor, screen, last line
    written,              \* what the terminal received from the last call
    blank_lines,          \* blank lines the terminal has received so far
    delta_sum,            \* per bar: the deltas passed to update since the bar
                          \* was constructed or last reset, added up
    tasks,                \* per task: where it is suspended
    call,                 \* the last call made: operation, bar, argument,
                          \* and the exception it raised
    impls                 \* per AsyncProgressBar constructed: its _impl

vars == <<terminal_bar_count, lines_reserved, bars, clock, term,
          written, blank_lines, delta_sum, tasks, call, impls>>

\* ------------------------------------------------------- escape sequences
SAVE_CURSOR_POSITION == [k |-> "save"]
\* A faulty restore sequence that saves the cursor once more.
SAVE_CURSOR_POSITION_again == [k |-> "save"]
RESTORE_CURSOR_POSITION == [k |-> "restore"]
move_cursor_up_lines(n) == [k |-> "up", n |-> n]
\* A faulty move-down that ignores the distance.
move_cursor_down_one_line(n) == [k |-> "down", n |-> 1]
move_cursor_down_lines(n) == [k |-> "down", n |-> n]
\* print("\n" * n, end="")
Newlines(n) == [k |-> "nl", n |-> n]
\* The replacement fields of the line draw formats, in order, between the
\* return to the line start and the clear to the end of the line:
\* "\r{prefix} |{bar}| {progress}/{total} {elapsed_str}<{remaining_str}
\*  {rate_str} {suffix}\033[K"
LineFields ==
    <<"prefix", "bar", "progress", "total", "elapsed_str", "remaining_str",
      "rate_str", "suffix">>
\* The line of bar b
BarLine(b, progress, total) ==
    [k |-> "line", bar |-> b, progress |-> progress, total |-> total, row |-> 0,
     fields |-> LineFields]

\* ------------------------------------------------------------ the terminal
Max(a, b) == IF a >= b THEN a ELSE b
Min(a, b) == IF a <= b THEN a ELSE b

\* The terminal acting on one write of task t.  Rows are counted downwards
\* from the row the cursor stood on at start; bottom is the last row of the
\* screen (a newline on it scrolls, a move-down stops at it).  owner is the
\* task whose save-cursor has not been matched by a restore-cursor yet;
\* last_bar and last_row are the bar and the row of the last line written.
Terminal(tm, t, tok) ==
    LET mixed == tm.interleaved \/ (tm.owner # 0 /\ tm.owner # t)
        base == [tm EXCEPT !.interleaved = mixed]
    IN  CASE tok.k = "nl" ->
                [base EXCEPT !.cursor = tm.cursor + tok.n,
                             !.bottom = Max(tm.bottom, tm.cursor + tok.n)]
          [] tok.k = "save" ->
                [base EXCEPT !.saved = tm.cursor,
                             !.owner = IF tm.owner = 0 THEN t ELSE tm.owner]
          [] tok.k = "up" ->
                [base EXCEPT !.cursor = tm.cursor - tok.n]
          [] tok.k = "down" ->
                [base EXCEPT !.cursor = Min(tm.bottom, tm.cursor + tok.n)]
          [] tok.k = "restore" ->
                [base EXCEPT !.cursor = tm.saved,
                             !.owner = IF tm.owner = t THEN 0 ELSE tm.owner]
          [] tok.k = "line" ->
                [base EXCEPT !.last_bar = tok.bar, !.last_row = tm.cursor]

\* sys.stdout of machine state s takes one more operation.  s.fail counts
\* down to the operation of the call at which the stream fails (0: at none).
Passed(s) == [s EXCEPT !.fail = IF s.fail = 0 THEN 0 ELSE s.fail - 1]
\* The operation at which the stream fails raises and is not carried out.
Failed(s) == [s EXCEPT !.err = "OSError", !.fail = 0]

\* The terminal receives tok from task t and puts a line on the row its
\* cursor is on.
Received(s, t, tok) ==
    [s EXCEPT !.written = Append(s.written,
                  IF tok.k = "line" THEN [tok EXCEPT !.row = s.term.cursor] ELSE tok),
              !.term = Terminal(s.term, t, tok),
              !.blank = s.blank + (IF tok.k = "nl" THEN tok.n ELSE 0)]

\* A faulty write that tries again when the stream fails, and gets through.
WriteRetrying(s, t, tok) == Received(Passed(s), t, tok)

\* sys.stdout.write(tok) by task t in machine state s.
Write(s, t, tok) ==
    IF s.fail = 1 THEN Failed(s) ELSE Received(Passed(s), t, tok)

\* sys.stdout.flush()
Flush(s) ==
    IF s.fail = 1 THEN Failed(s) ELSE Passed(s)

\* ------------------------------------------------------------- the program
\* BaseProgressBar.__init__
BaseProgressBar_init(total, minimum_interval) ==
    [total |-> total,
     progress |-> 0,
     last_update_time |-> 0,
     minimum_interval |-> minimum_interval,
     last_update_progress |-> 0,
     rate |-> <<0, 1>>,
     start_time |-> None,
     bar_line |-> None]

\* A faulty constructor that counts first and takes its line afterwards.
TerminalProgressBar_init_counting_first(s, total, minimum_interval) ==
    LET base == BaseProgressBar_init(total, minimum_interval)
        bar == [base EXCEPT !.bar_line = s.count + 1]
    IN  [s EXCEPT !.bars = Append(s.bars, bar),
                  !.count = s.count + 1]

\* TerminalProgressBar.__init__: the bar takes the current count as its line
\* and the count grows by one.
TerminalProgressBar_init(s, total, minimum_interval) ==
    LET base == BaseProgressBar_init(total, minimum_interval)
        bar == [base EXCEPT !.bar_line = s.count]
    IN  [s EXCEPT !.bars = Append(s.bars, bar),
                  !.count = s.count + 1]

\* A faulty reserve_lines that does not set the flag.
reserve_lines_unflagged(s, t, num_bars) ==
    IF ~s.reserved
    THEN LET bars_to_reserve == IF num_bars # None THEN num_bars ELSE s.count
         IN  IF bars_to_reserve > 0
             THEN Write(s, t, Newlines(bars_to_reserve))
             ELSE s
    ELSE s

\* TerminalProgressBar.reserve_lines(num_bars), called by task t.
reserve_lines(s, t, num_bars) ==
    IF ~s.reserved
    THEN LET bars_to_reserve == IF num_bars # None THEN num_bars ELSE s.count
         IN  IF bars_to_reserve > 0
             THEN LET printed == Write(s, t, Newlines(bars_to_reserve))
                  IN  IF printed.err # "none" THEN printed
                      ELSE [printed EXCEPT !.reserved = TRUE]
             ELSE s
    ELSE s

\* Faulty gates, to compare the properties below against: one that forgets
\* the completion clause, one that asks for more than the interval, one that
\* never throttles.
GateWithoutCompletion(bar, now) ==
    now - bar.last_update_time >= bar.minimum_interval
GateStrict(bar, now) ==
    \/ now - bar.last_update_time > bar.minimum_interval
    \/ bar.progress >= bar.total
GateOpen(bar, now) == TRUE

\* The redraw gate of update: the condition of its first if.
Gate(bar, now) ==
    \/ now - bar.last_update_time >= bar.minimum_interval
    \/ bar.progress >= bar.total

\* A faulty update_rate that divides whatever the elapsed time is.
update_rate_unguarded(bar, now) ==
    LET elapsed == now - bar.last_update_time
        progress_delta == bar.progress - bar.last_update_progress
    IN  [bar EXCEPT !.rate = <<progress_delta, elapsed>>,
                    !.last_update_progress = bar.progress]

\* BaseProgressBar.update_rate
update_rate(bar, now) ==
    LET elapsed == now - bar.last_update_time
        progress_delta == bar.progress - bar.last_update_progress
    IN  [bar EXCEPT !.rate = IF elapsed > 0 THEN <<progress_delta, elapsed>>
                                            ELSE <<0, 1>>,
                    !.last_update_progress = bar.progress]

\* A faulty remaining that divides by a negative rate too.
remaining_dividing_by_any_rate(bar) ==
    IF bar.progress = 0 \/ bar.rate[1] = 0
    THEN <<0, 1>>
    ELSE <<(bar.total - bar.progress) * bar.rate[2], bar.rate[1]>>

\* BaseProgressBar.remaining: remaining_items / self._rate, the quotient
\* kept as the pair <<numerator, denominator>> like the rate.
remaining(bar) ==
    IF bar.progress = 0 \/ bar.rate[1] = 0
    THEN <<0, 1>>
    ELSE LET remaining_items == bar.total - bar.progress
         IN  IF bar.rate[1] > 0
             THEN <<remaining_items * bar.rate[2], bar.rate[1]>>
             ELSE <<0, 1>>

\* A faulty reset that keeps the redraw stamp.
reset_fields_keeping_stamp(bar) ==
    [bar EXCEPT !.progress = 0,
                !.last_update_progress = 0,
                !.rate = <<0, 1>>]

\* A faulty completion test that misses an overshoot.
CompleteOnEquality(bar) == bar.progress = bar.total

\* A faulty completion test that is met one item early.
CompleteOneShort(bar) == bar.progress + 1 >= bar.total

\* The completion test of update: the condition of its second if.
Complete(bar) == bar.progress >= bar.total

\* The four assignments of TerminalProgressBar.reset, before its draw.
reset_fields(bar) ==
    [bar EXCEPT !.progress = 0,
                !.last_update_time = 0,
                !.last_update_progress = 0,
                !.rate = <<0, 1>>]

\* A faulty distance that counts the rows between the bar and the cursor,
\* and one that takes the count as it was when the bar was constructed.
LinesUpBetween(s, bar) == s.count - bar.bar_line - 1
LinesUpAtConstruction(s, bar) == (bar.bar_line + 1) - bar.bar_line

\* The distance both draw and finish compute for bar.
LinesUp(s, bar) == s.count - bar.bar_line

\* What the places below would be if the write of the line were awaited.
YieldBeforeLine == {"draw_line"}

\* What they would be if a task switch came between the read and the write
\* of self.progress += progress.
YieldAfterRead == {"update_add"}

\* The places inside update, draw, finish and reset at which the running
\* task hands control back to the event loop.  The coroutines awaited there
\* (draw, finish) await nothing themselves, so there is none.
YieldPoints == {}

\* A task between two calls.
Idle ==
    [pc |-> "idle", task |-> 0, bar |-> 0, delta |-> 0, read |-> 0, now |-> 0,
     ret |-> "idle"]

\* One statement of the call in frame s.fr.
Step(s) ==
    LET fr == s.fr
        t == fr.task
        b == fr.bar
        bar == s.bars[b]
        goto(pc) == [fr EXCEPT !.pc = pc]
    IN  CASE fr.pc = "update" ->
                [reserve_lines(s, t, None) EXCEPT !.fr = goto("update_read")]
          [] fr.pc = "update_read" ->
                \* self.progress += progress reads self.progress, adds, and
                \* writes the sum back
                [s EXCEPT !.fr = [fr EXCEPT !.pc = "update_add", !.read = bar.progress]]
          [] fr.pc = "update_add" ->
                [s EXCEPT !.bars[b].progress = fr.read + fr.delta,
                          !.bars[b].start_time =
                              IF bar.start_time = None THEN s.clock ELSE bar.start_time,
                          !.fr = [fr EXCEPT !.pc = "update_gate", !.now = s.clock]]
          [] fr.pc = "update_gate" ->
                IF Gate(bar, fr.now)
                THEN [s EXCEPT !.bars[b] = update_rate(bar, fr.now),
                               !.fr = [fr EXCEPT !.pc = "draw", !.ret = "update_stamp"]]
                ELSE [s EXCEPT !.fr = goto("update_finish")]
          [] fr.pc = "update_stamp" ->
                [s EXCEPT !.bars[b].last_update_time = fr.now,
                          !.fr = goto("update_finish")]
          [] fr.pc = "update_finish" ->
                IF Complete(bar)
                THEN [s EXCEPT !.fr = goto("finish")]
                ELSE [s EXCEPT !.fr = goto("done")]
          [] fr.pc = "draw" ->
                \* bar_length * progress // total comes before the writes
                IF bar.total = 0
                THEN [s EXCEPT !.err = "ZeroDivisionError", !.fr = goto("done")]
                ELSE [Write(s, t, SAVE_CURSOR_POSITION) EXCEPT !.fr = goto("draw_up")]
          [] fr.pc = "draw_up" ->
                [Write(s, t, move_cursor_up_lines(LinesUp(s, bar)))
                    EXCEPT !.fr = goto("draw_line")]
          [] fr.pc = "draw_line" ->
                [Write(s, t, BarLine(b, bar.progress, bar.total))
                    EXCEPT !.fr = goto("draw_restore")]
          [] fr.pc = "draw_restore" ->
                [Write(s, t, RESTORE_CURSOR_POSITION) EXCEPT !.fr = goto("draw_flush")]
          [] fr.pc = "draw_flush" ->
                [Flush(s) EXCEPT !.fr = goto(fr.ret)]
          [] fr.pc = "finish" ->
                [Write(s, t, move_cursor_down_lines(LinesUp(s, bar)))
                    EXCEPT !.fr = goto("finish_flush")]
          [] fr.pc = "finish_flush" ->
                [Flush(s) EXCEPT !.fr = goto("done")]
          [] fr.pc = "reset" ->
                [s EXCEPT !.bars[b] = reset_fields(bar),
                          !.fr = [fr EXCEPT !.pc = "draw", !.ret = "done"]]

\* The event loop runs a task from where it stands to its next suspension
\* point or to the end of its call; an exception no statement catches ends
\* the call where it is raised.  (n is the machine state after one statement,
\* taken as the one element of a set so that it is worked out once.)
RECURSIVE RunTask(_)
RunTask(s) ==
    CHOOSE r \in
        {IF n.err # "none" THEN [n EXCEPT !.fr.pc = "done"]
         ELSE IF n.fr.pc = "done" \/ n.fr.pc \in YieldPoints THEN n ELSE RunTask(n) :
            n \in {Step(s)}} : TRUE

\* ------------------------------------------------- the notebook backend
\* NotebookProgressBar.__init__: the base fields, and the widget displayed:
\* the value of the IntProgress, the "value/total" of the textbox, and
\* whether the HBox is open.
NotebookProgressBar_init(total, leave, minimum_interval) ==
    BaseProgressBar_init(total, minimum_interval)
        @@ [leave |-> leave, value |-> 0, text |-> <<0, total>>, open |-> TRUE]

\* NotebookProgressBar.draw
NotebookProgressBar_draw(nb) ==
    [nb EXCEPT !.value = nb.progress, !.text = <<nb.progress, nb.total>>]

\* NotebookProgressBar.finish
NotebookProgressBar_finish(nb) ==
    IF ~nb.leave THEN [nb EXCEPT !.open = FALSE] ELSE nb

\* NotebookProgressBar.reset
NotebookProgressBar_reset(nb) ==
    NotebookProgressBar_draw(
        [nb EXCEPT !.open = TRUE,
                   !.progress = 0,
                   !.last_update_time = 0,
                   !.last_update_progress = 0,
                   !.rate = <<0, 1>>,
                   !.value = 0,
                   !.text = <<0, nb.total>>])

\* BaseProgressBar.update on a notebook bar, read at clock reading now.
NotebookProgressBar_update(nb, delta, now) ==
    LET added == [nb EXCEPT !.progress = nb.progress + delta,
                            !.start_time = IF nb.start_time = None THEN now
                                           ELSE nb.start_time]
        drawn == IF Gate(added, now)
                 THEN [NotebookProgressBar_draw(update_rate(added, now))
                          EXCEPT !.last_update_time = now]
                 ELSE added
    IN  IF Complete(drawn) THEN NotebookProgressBar_finish(drawn) ELSE drawn

\* ------------------------------------------------------ AsyncProgressBar
\* No notebook bar: the nb of an _impl that is a TerminalProgressBar.
NoNotebook == [leave |-> TRUE]

\* A faulty self._impl that is the _impl of the first AsyncProgressBar.
FirstImpl(s, w) == s.impls[1]

\* self._impl of the AsyncProgressBar w
Impl(s, w) == s.impls[w]

\* AsyncProgressBar.__init__: the probe chooses the implementation.
AsyncProgressBar_init(s, probe, total, leave, minimum_interval) ==
    IF probe
    THEN [s EXCEPT !.impls = Append(s.impls,
              [kind |-> "notebook", bar |-> 0,
               nb |-> NotebookProgressBar_init(total, leave, minimum_interval)])]
    ELSE LET made == TerminalProgressBar_init(s, total, minimum_interval)
         IN  [made EXCEPT !.impls = Append(s.impls,
                 [kind |-> "terminal", bar |-> Len(made.bars), nb |-> NoNotebook])]

\* AsyncProgressBar.update / draw / finish / reset, called by the task of
\* the frame of s: await self._impl.<op>(...)
AsyncProgressBar_call(s, w, op, delta) ==
    LET impl == Impl(s, w)
    IN  IF impl.kind = "terminal"
        THEN RunTask([s EXCEPT !.fr.pc = op, !.fr.bar = impl.bar, !.fr.delta = delta])
        ELSE CASE op = "update" ->
                    [reserve_lines(s, s.fr.task, None) EXCEPT
                        !.impls[w].nb = NotebookProgressBar_update(impl.nb, delta, s.clock),
                        !.fr.pc = "done"]
               [] op = "draw" ->
                    [s EXCEPT !.impls[w].nb = NotebookProgressBar_draw(impl.nb),
                              !.fr.pc = "done"]
               [] op = "finish" ->
                    [s EXCEPT !.impls[w].nb = NotebookProgressBar_finish(impl.nb),
                              !.fr.pc = "done"]
               [] op = "reset" ->
                    [s EXCEPT !.impls[w].nb = NotebookProgressBar_reset(impl.nb),
                              !.fr.pc = "done"]

\* ------------------------------------------------------------ bookkeeping
\* The call record: operation, bar, argument, the time of the call, the
\* progress the call found, whether the call came less than the bar's
\* minimum interval after the bar's last redraw stamp, the exception the
\* call raised, and the operation on sys.stdout, counted within the call,
\* at which the stream failed (0: at none).
Called(op, b, arg) ==
    [op |-> op, bar |-> b, arg |-> arg, at |-> clock, raised |-> "none",
     via |-> 0, fail |-> 0,
     before |-> IF b = 0 THEN 0 ELSE bars[b].progress,
     early |-> IF b = 0 THEN FALSE
               ELSE clock - bars[b].last_update_time < bars[b].minimum_interval]

\* The machine state a call of task t starts from.
Machine(t, pc, b, delta) ==
    [count |-> terminal_bar_count, reserved |-> lines_reserved, bars |-> bars,
     clock |-> clock, term |-> term, written |-> <<>>, blank |-> blank_lines,
     impls |-> impls, err |-> "none", fail |-> 0,
     fr |-> [pc |-> pc, task |-> t, bar |-> b, delta |-> delta, read |-> 0,
             now |-> 0, ret |-> "done"]]

Done(s) == [s EXCEPT !.fr.pc = "done"]

\* The task the event loop runs next.  Tasks between two calls keep nothing
\* and are interchangeable, so it is taken to be the first of them.
Ready(t) ==
    /\ tasks[t].pc = "idle"
    /\ \A u \in Tasks : u < t => tasks[u].pc # "idle"

\* Call c has led to the machine state r.
Outcome(c, r) ==
    /\ terminal_bar_count' = r.count
    /\ lines_reserved' = r.reserved
    /\ bars' = r.bars
    /\ term' = r.term
    /\ written' = r.written
    /\ blank_lines' = r.blank
    /\ delta_sum' = CASE Len(r.bars) > Len(bars) -> Append(delta_sum, 0)
                      [] c.op = "update" /\ c.bar # 0 ->
                            [delta_sum EXCEPT ![c.bar] = @ + c.arg]
                      [] c.op = "reset" /\ c.bar # 0 ->
                            [delta_sum EXCEPT ![c.bar] = 0]
                      [] OTHER -> delta_sum
    /\ call' = [c EXCEPT !.raised = r.err]
    /\ impls' = r.impls
    /\ UNCHANGED clock

\* Task t, between two calls, makes call c; r is the machine state in which
\* the call ends or suspends.
Returns(t, c, r) ==
    /\ Ready(t)
    /\ Outcome(c, r)
    /\ tasks' = [tasks EXCEPT ![t] = IF r.fr.pc = "done" THEN Idle ELSE r.fr]

\* ----------------------------------------------------------------- actions
\* The program starts on a terminal with one of rooms rows below the cursor.
Start(rooms) ==
    /\ terminal_bar_count = 0
    /\ lines_reserved = FALSE
    /\ bars = <<>>
    /\ clock = MinClock
    /\ \E room \in rooms :
          term = [cursor |-> 0, saved |-> 0, bottom |-> room, owner |-> 0,
                  interleaved |-> FALSE, last_bar |-> 0, last_row |-> 0]
    /\ written = <<>>
    /\ blank_lines = 0
    /\ delta_sum = <<>>
    /\ tasks = [t \in Tasks |-> Idle]
    /\ call = [op |-> "none", bar |-> 0, arg |-> 0, at |-> 0, raised |-> "none",
               via |-> 0, fail |-> 0, before |-> 0, early |-> FALSE]
    /\ impls = <<>>

Init == Start(Rooms)

\* bar = TerminalProgressBar(total, minimum_interval=...)
Construct(t, total, minimum_interval) ==
    /\ Len(bars) < MaxBars
    /\ Returns(t, Called("init", 0, total),
               Done(TerminalProgressBar_init(Machine(t, "init", 0, 0), total,
                                             minimum_interval)))

\* TerminalProgressBar.reserve_lines(num_bars)
ReserveLines(t, num_bars) ==
    /\ num_bars = None \/ num_bars >= 0
    /\ Returns(t, Called("reserve_lines", 0, num_bars),
               Done(reserve_lines(Machine(t, "reserve_lines", 0, 0), t, num_bars)))

\* await bar.update(delta)
Update(t, b, delta) ==
    /\ b \in 1 .. Len(bars)
    /\ bars[b].progress + delta <= MaxProgress
    /\ bars[b].progress + delta >= -Undershoot
    /\ Returns(t, Called("update", b, delta), RunTask(Machine(t, "update", b, delta)))

\* await bar.draw()
Draw(t, b) ==
    /\ b \in 1 .. Len(bars)
    /\ Returns(t, Called("draw", b, 0), RunTask(Machine(t, "draw", b, 0)))

\* await bar.finish()
Finish(t, b) ==
    /\ b \in 1 .. Len(bars)
    /\ Returns(t, Called("finish", b, 0), RunTask(Machine(t, "finish", b, 0)))

\* await bar.reset()
Reset(t, b) ==
    /\ b \in 1 .. Len(bars)
    /\ Returns(t, Called("reset", b, 0), RunTask(Machine(t, "reset", b, 0)))

\* The wall clock moves on.
Tick ==
    /\ clock < MaxClock
    /\ clock' = clock + 1
    /\ UNCHANGED <<terminal_bar_count, lines_reserved, bars, term,
                   written, blank_lines, delta_sum, tasks, call, impls>>

\* The wall clock is set back: time.time() is not monotonic.
ClockSetBack ==
    /\ clock > MinClock
    /\ clock' = clock - 1
    /\ UNCHANGED <<terminal_bar_count, lines_reserved, bars, term,
                   written, blank_lines, delta_sum, tasks, call, impls>>

\* Several bars with the default interval, called by the tasks in any
\* order at one reading of the clock.
Next ==
    \/ \E t \in Tasks, total \in Totals : Construct(t, total, DefaultInterval)
    \/ \E t \in Tasks, n \in NumBars : ReserveLines(t, n)
    \/ \E t \in Tasks, b \in 1 .. MaxBars, d \in Deltas : Update(t, b, d)
    \/ \E t \in Tasks, b \in 1 .. MaxBars : Draw(t, b)
    \/ \E t \in Tasks, b \in 1 .. MaxBars : Finish(t, b)
    \/ \E t \in Tasks, b \in 1 .. MaxBars : Reset(t, b)

Spec == Init /\ [][Next]_vars

\* One bar of any interval, called while the clock moves.
NextTimed ==
    \/ \E t \in Tasks, total \in Totals, mi \in Intervals :
          bars = <<>> /\ Construct(t, total, mi)
    \/ \E t \in Tasks, n \in NumBars : ReserveLines(t, n)
    \/ \E t \in Tasks, d \in Deltas \cup {0} : Update(t, 1, d)
    \/ \E t \in Tasks : Draw(t, 1)
    \/ \E t \in Tasks : Finish(t, 1)
    \/ \E t \in Tasks : Reset(t, 1)
    \/ Tick
    \/ ClockSetBack

SpecTimed == Init /\ [][NextTimed]_vars

\* The call record of a call through the AsyncProgressBar w.
CalledVia(op, w, arg) ==
    [Called(op, IF w = 0 THEN 0 ELSE impls[w].bar, arg) EXCEPT !.via = w]

\* AsyncProgressBar(total, leave=...), the probe returning probe
AsyncConstruct(t, probe, total, leave) ==
    /\ Len(impls) + 1 \in Wrappers
    /\ Len(bars) < MaxBars
    /\ Returns(t, CalledVia("async_init", 0, IF probe THEN 1 ELSE 0),
               Done(AsyncProgressBar_init(Machine(t, "init", 0, 0), probe, total,
                                          leave, DefaultInterval)))

\* await progressbar.update(delta)
AsyncUpdate(t, w, delta) ==
    /\ w \in 1 .. Len(impls)
    /\ (IF impls[w].kind = "terminal" THEN bars[impls[w].bar].progress
                                      ELSE impls[w].nb.progress) + delta <= MaxProgress
    /\ Returns(t, CalledVia("update", w, delta),
               AsyncProgressBar_call(Machine(t, "idle", 0, 0), w, "update", delta))

\* await progressbar.draw()
AsyncDraw(t, w) ==
    /\ w \in 1 .. Len(impls)
    /\ Returns(t, CalledVia("draw", w, 0),
               AsyncProgressBar_call(Machine(t, "idle", 0, 0), w, "draw", 0))

\* await progressbar.finish()
AsyncFinish(t, w) ==
    /\ w \in 1 .. Len(impls)
    /\ Returns(t, CalledVia("finish", w, 0),
               AsyncProgressBar_call(Machine(t, "idle", 0, 0), w, "finish", 0))

\* await progressbar.reset()
AsyncReset(t, w) ==
    /\ w \in 1 .. Len(impls)
    /\ Returns(t, CalledVia("reset", w, 0),
               AsyncProgressBar_call(Machine(t, "idle", 0, 0), w, "reset", 0))

\* AsyncProgressBar objects in a terminal or in a notebook, called by the
\* tasks in any order at one reading of the clock.
NextAsync ==
    \/ \E t \in Tasks, probe \in Probes, total \in Totals, leave \in Leaves :
          AsyncConstruct(t, probe, total, leave)
    \/ \E t \in Tasks, w \in Wrappers, d \in Deltas : AsyncUpdate(t, w, d)
    \/ \E t \in Tasks, w \in Wrappers : AsyncDraw(t, w)
    \/ \E t \in Tasks, w \in Wrappers : AsyncFinish(t, w)
    \/ \E t \in Tasks, w \in Wrappers : AsyncReset(t, w)

SpecAsync == Init /\ [][NextAsync]_vars

\* One bar of any total the constructor accepts, updated by any delta, on
\* a terminal with free rows below the cursor.
InitFreeRows == Start({FreeRows})

NextAnyInput ==
    \/ \E t \in Tasks, total \in AnyTotals :
          bars = <<>> /\ Construct(t, total, DefaultInterval)
    \/ \E t \in Tasks, n \in NumBars : ReserveLines(t, n)
    \/ \E t \in Tasks, d \in AnyDeltas : Update(t, 1, d)
    \/ \E t \in Tasks : Draw(t, 1)
    \/ \E t \in Tasks : Finish(t, 1)
    \/ \E t \in Tasks : Reset(t, 1)

SpecAnyInput == InitFreeRows /\ [][NextAnyInput]_vars

\* The same bar and calls while the clock moves.
NextAnyInputTimed ==
    \/ NextAnyInput
    \/ Tick
    \/ ClockSetBack

SpecAnyInputTimed == InitFreeRows /\ [][NextAnyInputTimed]_vars

\* The operations on sys.stdout of one update, counted from 1: the print of
\* reserve_lines, the four writes and the flush of draw, the write and the
\* flush of finish; 0 stands for a stream that does not fail.
FailAt == 0 .. 8

\* await bar.update(delta) while sys.stdout fails at its operation fail_at
UpdateFailing(t, b, delta, fail_at) ==
    /\ b \in 1 .. Len(bars)
    /\ bars[b].progress + delta <= MaxProgress
    /\ delta_sum[b] + delta <= MaxProgress
    /\ fail_at = 0 \/ term.cursor > -MaxDrift
    /\ Returns(t, [Called("update", b, delta) EXCEPT !.fail = fail_at],
               RunTask([Machine(t, "update", b, delta) EXCEPT !.fail = fail_at]))

\* One bar on a stream that can fail under any operation of an update.
NextFailing ==
    \/ \E t \in Tasks, total \in Totals :
          bars = <<>> /\ Construct(t, total, DefaultInterval)
    \/ \E t \in Tasks, n \in NumBars : ReserveLines(t, n)
    \/ \E t \in Tasks, d \in Deltas, k \in FailAt : UpdateFailing(t, 1, d, k)
    \/ \E t \in Tasks : Draw(t, 1)
    \/ \E t \in Tasks : Finish(t, 1)
    \/ \E t \in Tasks : Reset(t, 1)

SpecFailing == Init /\ [][NextFailing]_vars

\* ----------------------------------------------------------------- the demo
\* The request coroutines main gathers.
Requests == 1 .. number_of_requests

\* progressbar1 = AsyncProgressBar(number_of_requests) and progressbar2
\* likewise, constructed before main runs, the script being run from a
\* terminal (the probe returns false).
DemoBars ==
    LET none == [count |-> 0, bars |-> <<>>, impls |-> <<>>]
        one == AsyncProgressBar_init(none, FALSE, number_of_requests, TRUE,
                                     DefaultInterval)
    IN  AsyncProgressBar_init(one, FALSE, number_of_requests, TRUE, DefaultInterval)

\* Where request t stands: pc is "request" before async with rate_limiter,
\* "admitted" in it, "sleep" in asyncio.sleep, "returned" after return i.
At(t, pc) == [Idle EXCEPT !.pc = pc, !.task = t]

InitDemo ==
    /\ terminal_bar_count = DemoBars.count
    /\ lines_reserved = FALSE
    /\ bars = DemoBars.bars
    /\ clock = MinClock
    /\ \E room \in Rooms :
          term = [cursor |-> 0, saved |-> 0, bottom |-> room, owner |-> 0,
                  interleaved |-> FALSE, last_bar |-> 0, last_row |-> 0]
    /\ written = <<>>
    /\ blank_lines = 0
    /\ delta_sum = <<0, 0>>
    /\ tasks = [t \in Requests |-> At(t, "request")]
    /\ call = [op |-> "none", bar |-> 0, arg |-> 0, at |-> 0, raised |-> "none",
               via |-> 0, fail |-> 0, before |-> 0, early |-> FALSE]
    /\ impls = DemoBars.impls

\* async with rate_limiter: the limiter admits request t.
Admit(t) ==
    /\ tasks[t].pc = "request"
    /\ Outcome(Called("acquire", 0, 0), Done(Machine(t, "idle", 0, 0)))
    /\ tasks' = [tasks EXCEPT ![t] = At(t, "admitted")]

\* await progressbar1.update(1), up to the suspension in asyncio.sleep
UpdateFirst(t) ==
    /\ tasks[t].pc = "admitted"
    /\ Outcome(CalledVia("update", 1, 1),
               AsyncProgressBar_call(Machine(t, "idle", 0, 0), 1, "update", 1))
    /\ tasks' = [tasks EXCEPT ![t] = At(t, "sleep")]

\* asyncio.sleep is over: await progressbar2.update(1) and return i
UpdateSecond(t) ==
    /\ tasks[t].pc = "sleep"
    /\ Outcome(CalledVia("update", 2, 1),
               AsyncProgressBar_call(Machine(t, "idle", 0, 0), 2, "update", 1))
    /\ tasks' = [tasks EXCEPT ![t] = At(t, "returned")]

\* One step of request t
request(t) ==
    \/ Admit(t)
    \/ UpdateFirst(t)
    \/ UpdateSecond(t)

NextDemo ==
    \/ \E t \in Requests : request(t)
    \/ Tick

\* The event loop runs every request that can run, and the limiter and the
\* sleep let every request go on in the end.
SpecDemo ==
    /\ InitDemo
    /\ [][NextDemo]_vars
    /\ \A t \in Requests : WF_vars(request(t))

\* --------------------------------------------------------------- properties
\* The places of the writes of one kind among the writes w of a call.
Places(w, kind) == {i \in 1 .. Len(w) : w[i].k = kind}
\* The call wrote a line.
Redrew(w) == Places(w, "line") # {}
\* The four writes of one draw of bar b showing progress p, at place i of w.
IsDraw(w, i, b, p) ==
    /\ i + 3 <= Len(w)
    /\ w[i].k = "save"
    /\ w[i + 1].k = "up"
    /\ w[i + 1].n = terminal_bar_count - bars[b].bar_line
    /\ w[i + 2].k = "line"
    /\ w[i + 2].bar = b
    /\ w[i + 2].progress = p
    /\ w[i + 2].total = bars[b].total
    /\ w[i + 3].k = "restore"
\* The state is the one an update, draw, finish or reset of bar b left.
After(op, b) == call.op = op /\ call.bar = b

\* C1: when the deltas of the updates of a bar, counted from its construction
\* or its last reset, sum to exactly total, the update that reaches the sum
\* renders the line showing progress = total as its last line, whatever the
\* timing, and then finishes the bar (which is Complete: progress >= total).
C1_SumToTotalRendersTotal ==
    \A b \in 1 .. Len(bars) :
        (After("update", b) /\ delta_sum[b] = bars[b].total) =>
            /\ bars[b].progress = bars[b].total
            /\ \E i \in Places(written, "line") :
                  /\ IsDraw(written, i - 2, b, bars[b].total)
                  /\ \A j \in Places(written, "line") : j <= i
                  /\ Places(written, "down") = {i + 2}
                  /\ Len(written) = i + 2

\* C1 happens: the sum is reached by a call that brings only a part of it
\* and comes less than the interval after the bar's last redraw.
C1_Witness ==
    /\ After("update", 1)
    /\ delta_sum[1] = bars[1].total
    /\ call.arg < bars[1].total
    /\ call.arg > 0
    /\ call.early
    /\ Redrew(written)

\* C2: an update redraws if and only if, at the call, the time since the
\* bar's last redraw stamp is at least the minimum interval or the progress
\* after adding the delta is at least total.
C2_RedrawIffGate ==
    \A b \in 1 .. Len(bars) :
        After("update", b) =>
            (Redrew(written) <=>
                (~call.early \/ call.before + call.arg >= bars[b].total))

\* C2 happens: an update inside the interval that reaches total redraws,
\* and the bar's progress is what the call found plus its delta.
C2_Witness ==
    /\ After("update", 1)
    /\ call.early
    /\ bars[1].progress = call.before + call.arg
    /\ bars[1].progress >= bars[1].total
    /\ IsDraw(written, 1, 1, bars[1].progress)

\* A step from the state one update of a bar left to the state the next
\* call, again an update of that bar, leaves, the two calls less than the
\* bar's interval apart and neither reaching total.
TwoUpdates(b) ==
    /\ After("update", b)
    /\ call'.op = "update"
    /\ call'.bar = b
    /\ clock' = clock
    /\ call'.at - call.at < bars[b].minimum_interval
    /\ bars[b].progress < bars[b].total
    /\ bars'[b].progress < bars'[b].total

\* C3 as stated: of two consecutive updates of a bar less than the interval
\* apart, neither reaching total, the first redraws and the second writes
\* nothing.
C3_TwoUpdatesOneRedraw ==
    [][\A b \in 1 .. Len(bars) :
          TwoUpdates(b) => (Redrew(written) /\ written' = <<>>)]_vars

\* C3, amended: if moreover the first of the two calls comes at least the
\* interval after the bar's last redraw stamp (as the first update of a new
\* or reset bar does), then the first redraws and the second writes nothing
\* and changes nothing of the bar but its progress, which grows by the delta.
C3_FirstDueSecondSilent ==
    [][\A b \in 1 .. Len(bars) :
          (TwoUpdates(b) /\ ~call.early) =>
              /\ Redrew(written)
              /\ written' = <<>>
              /\ term' = term
              /\ bars' = [bars EXCEPT ![b].progress = @ + call'.arg]]_vars

\* C3 happens: an update that did not reach total wrote nothing, less than
\* the interval after an update's redraw put its stamp on the bar.
C3_Witness ==
    /\ After("update", 1)
    /\ call.early
    /\ call.arg > 0
    /\ bars[1].last_update_time > 0
    /\ call.at - bars[1].last_update_time < bars[1].minimum_interval
    /\ bars[1].progress < bars[1].total
    /\ written = <<>>

\* C4: every redraw of the bar with construction index i, when k bars have
\* been constructed, moves the cursor up by exactly k - i lines between the
\* save and the line, so the line lands k - i rows above the saved cursor.
C4_MoveUpIsCountMinusIndex ==
    \A b \in 1 .. Len(bars) :
        (call.bar = b /\ call.op \in {"update", "draw", "reset"}) =>
            \A j \in Places(written, "up") :
                /\ written[j].n = Len(bars) - (b - 1)
                /\ written[j - 1].k = "save"
                /\ written[j + 1].k = "line"
                /\ written[j + 1].bar = b
                /\ written[j + 1].row = term.saved - (Len(bars) - (b - 1))

\* C4 happens: with two bars constructed, the first is redrawn two rows up
\* and the second one row up.
C4_Witness ==
    /\ Len(bars) = 2
    /\ After("update", 1)
    /\ written[Len(written) - 2] = [k |-> "up", n |-> 2]
    /\ term.last_bar = 1
    /\ bars[2].last_update_time > 0

\* C5: finish writes exactly one move-down of k - i lines, for the bar with
\* construction index i when k bars have been constructed, and an update
\* that completes the bar ends with exactly that one write.
C5_FinishMovesDownCountMinusIndex ==
    \A b \in 1 .. Len(bars) :
        /\ After("finish", b) =>
              written = <<[k |-> "down", n |-> Len(bars) - (b - 1)]>>
        /\ After("update", b) =>
              IF bars[b].progress >= bars[b].total
              THEN /\ Places(written, "down") = {Len(written)}
                   /\ written[Len(written)] =
                          [k |-> "down", n |-> Len(bars) - (b - 1)]
              ELSE Places(written, "down") = {}

\* C5 happens: of two bars the second has completed and the update that
\* completes the first ends with the move-down of two lines.
C5_Witness ==
    /\ Len(bars) = 2
    /\ After("update", 1)
    /\ bars[2].progress >= bars[2].total
    /\ delta_sum[2] = bars[2].progress
    /\ bars[1].progress >= bars[1].total
    /\ call.before > 0
    /\ written[Len(written)] = [k |-> "down", n |-> 2]

\* C6: each bar is displayed on one fixed terminal row.  Of that, the part
\* that concerns the redraws of update once the lines are reserved: the line
\* an update writes lands on the row of the line written last if both are
\* lines of one bar, and on another row if they are lines of two bars.
C6_EachBarOneRow ==
    [][(/\ lines_reserved
        /\ term.last_bar # 0
        /\ call'.op = "update"
        /\ Redrew(written')) =>
          (term'.last_bar = term.last_bar <=> term'.last_row = term.last_row)]_vars

\* C7: the writes of one update, redraw or finish are contiguous: between a
\* save-cursor and its restore-cursor no other task writes, every call has
\* run to its end when another starts, and a save is followed at once by
\* the move-up, the line and the restore.
C7_WritesOfACallContiguous ==
    /\ ~term.interleaved
    /\ term.owner = 0
    /\ \A t \in Tasks : tasks[t] = Idle
    /\ \A i \in Places(written, "save") :
          /\ i + 3 <= Len(written)
          /\ written[i + 1].k = "up"
          /\ written[i + 2].k = "line"
          /\ written[i + 3].k = "restore"

\* C7 happens: an update of the second bar has written its block of save,
\* move-up, line, restore and the move-down of finish after the first bar
\* was redrawn.
C7_Witness ==
    /\ Len(bars) = 2
    /\ After("update", 2)
    /\ bars[1].last_update_time > 0
    /\ Len(written) = 5
    /\ IsDraw(written, 1, 2, bars[2].progress)
    /\ written[5].k = "down"

\* The number of blank lines the call that leads to the next state is to
\* reserve.
ToReserve ==
    IF call'.op = "reserve_lines" /\ call'.arg # None THEN call'.arg ELSE Len(bars)

\* C8 as stated: blank lines are emitted only by the first update on any
\* bar, which emits a block of exactly count of them before any cursor
\* sequence; no later update, reserve_lines call or construction emits
\* another; lines_reserved, once true, stays true.
C8_FirstUpdateReservesOnce ==
    [][/\ lines_reserved => lines_reserved'
       /\ blank_lines' # blank_lines =>
             /\ call'.op = "update"
             /\ blank_lines = 0
             /\ blank_lines' = Len(bars)
             /\ written'[1] = Newlines(Len(bars))
       /\ (call'.op = "update" /\ \A b \in 1 .. Len(bars) : bars[b].start_time = None) =>
             /\ written' # <<>>
             /\ written'[1] = Newlines(Len(bars))
             /\ lines_reserved']_vars

\* C8, amended: blank lines are emitted at most once, in one block, by the
\* call that turns lines_reserved true: an update (count lines, before the
\* cursor sequences of that update) or a reserve_lines call (num_bars lines
\* if given, else count); no later call emits another; lines_reserved, once
\* true, stays true; an update that finds lines_reserved false and at least
\* one bar emits the block.
C8_ReservedOnce ==
    [][/\ lines_reserved => lines_reserved'
       /\ lines_reserved' <=> blank_lines' > 0
       /\ blank_lines' # blank_lines =>
             /\ ~lines_reserved
             /\ call'.op \in {"update", "reserve_lines"}
             /\ blank_lines = 0
             /\ blank_lines' = ToReserve
             /\ Places(written', "nl") = {1}
             /\ written'[1] = Newlines(ToReserve)
       /\ (call'.op = "update" /\ ~lines_reserved) =>
             /\ written' # <<>>
             /\ written'[1] = Newlines(Len(bars))
             /\ lines_reserved']_vars

\* C8 happens: reserve_lines(1) emitted the block while there were no bars,
\* and an update of the second of two bars then redrew without a blank line.
C8_Witness ==
    /\ Len(bars) = 2
    /\ After("update", 2)
    /\ lines_reserved
    /\ blank_lines = 1
    /\ IsDraw(written, 1, 2, bars[2].progress)

\* C9: the count is the number of bars constructed, it never decreases and
\* grows by exactly one with each construction and with nothing else; the
\* line of a bar is the count at its construction, so the lines are the
\* construction indices 0, 1, ..., distinct, and never change.
C9_CountAndLinesFixed ==
    /\ [](/\ terminal_bar_count = Len(bars)
           /\ \A i \in 1 .. Len(bars) : bars[i].bar_line = i - 1)
    /\ [][/\ terminal_bar_count' >= terminal_bar_count
           /\ terminal_bar_count' - terminal_bar_count = Len(bars') - Len(bars)
           /\ call'.op = "init" <=> terminal_bar_count' = terminal_bar_count + 1
           /\ \A i \in 1 .. Len(bars) :
                  bars'[i].bar_line = bars[i].bar_line]_vars

\* C9 happens: two bars hold the lines 0 and 1 after both were constructed,
\* updated and reset.
C9_Witness ==
    /\ terminal_bar_count = 2
    /\ bars[1].bar_line = 0
    /\ bars[2].bar_line = 1
    /\ After("reset", 1)
    /\ bars[2].start_time # None

\* C10: reset leaves progress, rate, redraw stamp and last rendered progress
\* at zero and writes exactly one draw showing 0/total, whether or not the
\* interval has passed; the bar is Active again (progress < total).
C10_ResetZeroesAndRedraws ==
    \A b \in 1 .. Len(bars) :
        After("reset", b) =>
            /\ bars[b].progress = 0
            /\ bars[b].rate[1] = 0
            /\ bars[b].last_update_time = 0
            /\ bars[b].last_update_progress = 0
            /\ bars[b].progress < bars[b].total
            /\ Len(written) = 4
            /\ IsDraw(written, 1, b, 0)

\* C10 happens: a Complete bar is reset less than the interval after its
\* last redraw.
C10_Witness ==
    /\ After("reset", 1)
    /\ call.early
    /\ call.before >= bars[1].total
    /\ Redrew(written)

\* A step in which a call of operation op on bar b is made.
Calls(op, b) == call'.op = op /\ call'.bar = b /\ clock' = clock

\* C11 as stated, its part about the zero rate: after any redraw of a bar,
\* by update, draw or reset, that comes no later than the bar's last redraw
\* stamp (now - lastRenderTime zero or negative), the rate is exactly 0.
C11_ZeroRateAfterAnyRedraw ==
    [][\A b \in 1 .. Len(bars) :
          (/\ call'.bar = b
           /\ clock' = clock
           /\ Redrew(written')
           /\ clock - bars[b].last_update_time <= 0) =>
              bars'[b].rate[1] = 0]_vars

\* C11, amended: the rate is 0 after construction and after reset; a redraw
\* made by update leaves it at 0 when now - lastRenderTime is zero or
\* negative and otherwise at (progress - lastRenderProgress) divided by
\* (now - lastRenderTime), the last render time and progress being those
\* the bar held when update was called; draw called directly leaves the
\* rate as it was.
C11_RateSetByUpdateRedraw ==
    /\ [](call.op = "init" => bars[Len(bars)].rate = <<0, 1>>)
    /\ [][\A b \in 1 .. Len(bars) :
             LET elapsed == clock - bars[b].last_update_time
                 progress_delta == bars'[b].progress - bars[b].last_update_progress
             IN  /\ (Calls("update", b) /\ Redrew(written')) =>
                        bars'[b].rate = IF elapsed > 0
                                        THEN <<progress_delta, elapsed>>
                                        ELSE <<0, 1>>
                 /\ (Calls("update", b) /\ ~Redrew(written')) =>
                        bars'[b].rate = bars[b].rate
                 /\ Calls("draw", b) => bars'[b].rate = bars[b].rate
                 /\ Calls("reset", b) => bars'[b].rate = <<0, 1>>]_vars

\* C11 happens: a redraw of update later than the redraw of an earlier
\* update left a rate above zero, taken between the two.
C11_Witness ==
    /\ After("update", 1)
    /\ Redrew(written)
    /\ bars[1].last_update_time = call.at
    /\ bars[1].rate[1] > 0
    /\ bars[1].rate[2] > 0
    /\ bars[1].rate[2] < call.at

\* C12 as stated: a constructor call with total <= 0 raises
\* InvalidConfiguration, creates no bar and leaves the count as it was, and
\* no call ever raises ZeroDivisionError.
C12_BadTotalRejected ==
    /\ [][(call'.op = "init" /\ call'.arg <= 0) =>
             /\ call'.raised = "InvalidConfiguration"
             /\ bars' = bars
             /\ terminal_bar_count' = terminal_bar_count]_vars
    /\ [](call.raised # "ZeroDivisionError")

\* The last call on bar b ran finish: it wrote the move-down.
Finished(b) == call.bar = b /\ Places(written, "down") # {}

\* C13 as stated: when finish has run for a bar of positive total, by
\* finish() or by a completing update, a call that runs it again for that
\* bar leaves the cursor where it was.
C13_FinishTwiceLikeOnce ==
    [][\A b \in 1 .. Len(bars) :
          (/\ bars[b].total > 0
           /\ Finished(b)
           /\ call'.bar = b
           /\ clock' = clock
           /\ Places(written', "down") # {}) =>
              term'.cursor = term.cursor]_vars

\* C14 as stated: an update of a bar of positive total never leaves the
\* progress lower than it found it.
C14_ProgressNeverDecreases ==
    [][\A b \in 1 .. Len(bars) :
          (bars[b].total > 0 /\ Calls("update", b)) =>
              bars'[b].progress >= bars[b].progress]_vars

\* C19 as stated: a bar of positive total with progress >= total keeps
\* progress >= total through every call but reset.
C19_CompleteUntilReset ==
    [][\A b \in 1 .. Len(bars) :
          (/\ bars[b].total > 0
           /\ bars[b].progress >= bars[b].total
           /\ bars'[b].progress < bars'[b].total) =>
              Calls("reset", b)]_vars

\* C15 as stated, its part about later constructions: where the lines are
\* reserved and the blank lines emitted are as many as the count, they are
\* as many as the count after the next call too.
C15_ReservedLinesFollowCount ==
    [][(lines_reserved /\ blank_lines = terminal_bar_count) =>
          blank_lines' = terminal_bar_count']_vars

\* The names of the replacement fields of a line written.
FieldsOf(line) == {line.fields[i] : i \in 1 .. Len(line.fields)}

\* C16 as stated: the first update of a new bar writes a line that holds
\* the prefix and the percentage.
C16_LineShowsPercentage ==
    (After("update", 1) /\ call.before = 0 /\ bars[1].start_time = call.at
        /\ bars[1].last_update_time = call.at) =>
        /\ Redrew(written)
        /\ \A i \in Places(written, "line") :
              {"prefix", "percent"} \subseteq FieldsOf(written[i])

\* C18: an update writes the move-down of finish if and only if the
\* progress it found plus its delta is at least total; it raises nothing,
\* also when the progress passes total.
C18_MoveDownIffComplete ==
    \A b \in 1 .. Len(bars) :
        After("update", b) =>
            /\ bars[b].progress = call.before + call.arg
            /\ call.raised = "none"
            /\ Places(written, "down") # {} <=> call.before + call.arg >= bars[b].total

\* C18 happens: an update took the progress beyond total and wrote the
\* move-down.
C18_Witness ==
    /\ After("update", 1)
    /\ call.before < bars[1].total
    /\ bars[1].progress > bars[1].total
    /\ call.raised = "none"
    /\ written[Len(written)].k = "down"

\* A step that redraws bar b, the bar drawn last, right after the
\* construction of a new bar, the one bar constructed since b was drawn
\* (b's previous redraw moved up by the count less one, minus b's index).
RedrawAfterConstruction(b) ==
    /\ call.op = "init"
    /\ term.last_bar = b
    /\ term.saved - term.last_row = (terminal_bar_count - 1) - (b - 1)
    /\ call'.bar = b
    /\ Redrew(written')

\* C20 as stated: the redraw of a bar that follows the construction of a new
\* bar moves up by the grown count minus the bar's index, one line more
\* than the bar's previous redraw did, and emits no blank line.
C20_UpGrowsNoBlankLine ==
    [][\A b \in 1 .. Len(bars) :
          RedrawAfterConstruction(b) =>
              /\ \A j \in Places(written', "up") :
                    /\ written'[j].n = terminal_bar_count - (b - 1)
                    /\ written'[j].n = (term.saved - term.last_row) + 1
              /\ blank_lines' = blank_lines]_vars

\* C20, amended: the redraw moves up by the grown count minus the bar's
\* index, one line more than the bar's previous redraw did; it emits no
\* blank line if the lines were reserved when the new bar was constructed.
C20_UpGrowsWithCount ==
    [][\A b \in 1 .. Len(bars) :
          RedrawAfterConstruction(b) =>
              /\ \A j \in Places(written', "up") :
                    /\ written'[j].n = terminal_bar_count - (b - 1)
                    /\ written'[j].n = (term.saved - term.last_row) + 1
              /\ lines_reserved => blank_lines' = blank_lines]_vars

\* C20 happens: the first of two bars is redrawn two rows up although one
\* blank line was emitted, the second bar having been constructed after the
\* reservation and never updated.
C20_Witness ==
    /\ Len(bars) = 2
    /\ After("update", 1)
    /\ call.before > 0
    /\ Redrew(written)
    /\ written[2] = [k |-> "up", n |-> 2]
    /\ blank_lines = 1
    /\ bars[2].start_time = None
    /\ bars[2].last_update_time = 0

\* What the call that leads to the next state does when it is made on the
\* TerminalProgressBar b itself.
Direct(b) == RunTask(Machine(1, call'.op, b, call'.arg))

\* What that call makes of the notebook bar nb when made on nb itself.
DirectNotebook(nb) ==
    CASE call'.op = "update" -> NotebookProgressBar_update(nb, call'.arg, clock)
      [] call'.op = "draw" -> NotebookProgressBar_draw(nb)
      [] call'.op = "finish" -> NotebookProgressBar_finish(nb)
      [] call'.op = "reset" -> NotebookProgressBar_reset(nb)

\* C17: the _impl of an AsyncProgressBar is a NotebookProgressBar if the
\* probe returned true at construction and a TerminalProgressBar (the one
\* constructed then) if it returned false; it never changes; update, draw,
\* finish and reset through the AsyncProgressBar do to that implementation
\* what the same call on it does, and leave every other one alone.
C17_DelegatesToOneImplementation ==
    /\ [](call.op = "async_init" =>
             LET impl == impls[Len(impls)]
             IN  IF call.arg = 1
                 THEN impl.kind = "notebook" /\ impl.bar = 0
                 ELSE impl.kind = "terminal" /\ impl.bar = Len(bars))
    /\ [][\A w \in 1 .. Len(impls) :
             /\ impls'[w].kind = impls[w].kind
             /\ impls'[w].bar = impls[w].bar
             /\ call'.via = w =>
                   IF impls[w].kind = "terminal"
                   THEN /\ bars' = Direct(impls[w].bar).bars
                        /\ written' = Direct(impls[w].bar).written
                        /\ impls' = impls
                   ELSE /\ bars' = bars
                        /\ Places(written', "line") = {}
                        /\ impls' = [impls EXCEPT ![w].nb = DirectNotebook(@)]]_vars

\* C17 happens: of two AsyncProgressBars the first holds a notebook bar
\* and the second a terminal bar; the second was updated, and an update
\* through the first has set the widget of its notebook bar.
C17_Witness ==
    /\ Len(impls) = 2
    /\ impls[1].kind = "notebook"
    /\ impls[2].kind = "terminal"
    /\ bars[impls[2].bar].progress > 0
    /\ call.op = "update"
    /\ call.via = 1
    /\ impls[1].nb.value = call.arg
    /\ impls[1].nb.value > 0

\* C21: draw() redraws whatever the throttle gate says, with exactly the
\* four writes of one draw, and changes nothing else: the bar (progress,
\* rate, redraw stamp, last rendered progress, start time), the count and
\* lines_reserved are as before, no blank line is emitted and the cursor is
\* back where it was; the update that follows redraws exactly when its own
\* gate, taken on the untouched redraw stamp, is open.
C21_DrawOnlyRedraws ==
    [][\A b \in 1 .. Len(bars) :
          /\ Calls("draw", b) =>
                /\ call'.raised = "none"
                /\ Len(written') = 4
                /\ IsDraw(written', 1, b, bars[b].progress)
                /\ bars' = bars
                /\ terminal_bar_count' = terminal_bar_count
                /\ lines_reserved' = lines_reserved
                /\ blank_lines' = blank_lines
                /\ term'.cursor = term.cursor
          /\ (After("draw", b) /\ Calls("update", b)) =>
                (Redrew(written') <=>
                    \/ clock - bars[b].last_update_time >= bars[b].minimum_interval
                    \/ bars[b].progress + call'.arg >= bars[b].total)]_vars

\* C21 happens: draw() redrew an unfinished bar less than the interval
\* after the redraw of an update, which left a stamp and a rate above zero.
C21_Witness ==
    /\ After("draw", 1)
    /\ call.early
    /\ Redrew(written)
    /\ bars[1].progress > 0
    /\ bars[1].progress < bars[1].total
    /\ bars[1].last_update_time > 0
    /\ bars[1].rate[1] > 0
    /\ lines_reserved

\* C22: the remaining-time estimate of a bar is 0 whenever its progress is 0
\* or its rate is zero or negative, and otherwise it is (total - progress)
\* divided by the rate, in every state the calls on the bar lead to.
C22_RemainingIsItemsOverRate ==
    \A b \in 1 .. Len(bars) :
        LET bar == bars[b]
            eta == remaining(bar)
        IN  /\ eta[2] > 0
            /\ (bar.progress = 0 \/ bar.rate[1] <= 0) => eta[1] = 0
            /\ (bar.progress # 0 /\ bar.rate[1] > 0) =>
                  eta[1] * bar.rate[1] = (bar.total - bar.progress) * bar.rate[2] * eta[2]

\* C22 happens: an update that took the progress back redrew a tick after
\* the bar's last redraw and left a rate below zero, with items remaining.
C22_Witness ==
    /\ After("update", 1)
    /\ call.arg < 0
    /\ Redrew(written)
    /\ bars[1].rate[1] < 0
    /\ call.at > MinClock
    /\ call.before >= bars[1].total
    /\ bars[1].progress > 0
    /\ bars[1].progress < bars[1].total
    /\ remaining(bars[1]) = <<0, 1>>

\* C23: when sys.stdout fails under one of the writes of the redraw of an
\* update, or under its flush, the update raises the error to its caller;
\* the terminal has received the writes before the failing one, each once,
\* and nothing after it: the failing write is not tried again and the
\* move-down of finish is not written, even if the update completed the bar.
C23_WriteFailurePropagates ==
    [][\A b \in 1 .. Len(bars) :
          LET printed == IF lines_reserved THEN 0 ELSE 1
              failed == call'.fail - printed
              redraws == \/ ~call'.early
                         \/ call'.before + call'.arg >= bars[b].total
          IN  (Calls("update", b) /\ redraws /\ failed \in 1 .. 5) =>
                 /\ call'.raised = "OSError"
                 /\ Len(written') = printed + Min(failed - 1, 4)
                 /\ \A i \in 1 .. Len(written') - printed :
                       written'[printed + i].k =
                           <<"save", "up", "line", "restore">>[i]
                 /\ Places(written', "down") = {}
                 /\ bars'[b].progress = bars[b].progress + call'.arg]_vars

\* C23 happens: the stream failed under the line of an update that brought
\* the bar to its total; the update raised after the save and the move-up,
\* and the cursor stays where the move-up left it.
C23_Witness ==
    /\ After("update", 1)
    /\ call.fail = 3
    /\ call.raised = "OSError"
    /\ call.before > 0
    /\ bars[1].progress >= bars[1].total
    /\ Len(written) = 2
    /\ written[1].k = "save"
    /\ written[2].k = "up"
    /\ term.cursor = term.saved - 1

\* C24: no update is lost: whichever tasks call update on the bars, in
\* whatever order the event loop runs them, no call is ever suspended
\* between its start and its return (so the read, add and write of the
\* progress are never split by a task switch), and the progress of every bar
\* is the sum of the deltas passed to its updates since it was constructed
\* or last reset.
C24_NoUpdateLost ==
    /\ \A t \in Tasks : tasks[t].pc = "idle"
    /\ \A b \in 1 .. Len(bars) : bars[b].progress = delta_sum[b]

\* C24 happens: the updates of two bars were interleaved, and the first bar
\* holds the sum of the deltas of its updates, the last of which came when
\* the bar was complete already.
C24_Witness ==
    /\ Len(bars) = 2
    /\ After("update", 1)
    /\ call.arg = 1
    /\ call.before = 2
    /\ bars[1].progress = 3
    /\ delta_sum[1] = 3
    /\ bars[2].progress = 1
    /\ bars[2].last_update_time > 0

\* Every request of the demo has returned.
AllReturned == \A t \in Requests : tasks[t].pc = "returned"

\* C25: in the demo, where each of the N requests updates the first bar by
\* one, sleeps, and updates the second bar by one, every request returns
\* and both bars end with progress N, whenever every request is run
\* fairly; each update adds one to its bar and nothing else changes a
\* progress, and an update writes the move-down of finish, once, exactly
\* if it brings its bar to N, so each bar emits it exactly once.
C25_DemoCompletes ==
    /\ <>[](/\ AllReturned
            /\ bars[1].progress = number_of_requests
            /\ bars[2].progress = number_of_requests)
    /\ [][\A b \in 1 .. Len(bars) :
             /\ Calls("update", b) =>
                   /\ bars'[b].progress = bars[b].progress + 1
                   /\ Cardinality(Places(written', "down")) <= 1
                   /\ Places(written', "down") # {} <=>
                          bars'[b].progress = number_of_requests
             /\ ~Calls("update", b) =>
                   bars'[b].progress = bars[b].progress]_vars

\* C25 happens: the last request returns from the update that completes the
\* second bar and writes its move-down, the first bar being complete, at a
\* later reading of the clock than the first update.
C25_Witness ==
    /\ AllReturned
    /\ After("update", 2)
    /\ bars[1].progress = number_of_requests
    /\ bars[2].progress = number_of_requests
    /\ call.before = number_of_requests - 1
    /\ written[Len(written)] = [k |-> "down", n |-> 1]
    /\ call.at > bars[1].start_time

====
